---------------------------- MODULE Spec2Model ----------------------------
(***************************************************************************)
(* Verification model of the training callbacks                            *)
(* (src/vocal_contour/callbacks.py) and of the block indexing of the       *)
(* local 2-D attention (src/models/t2t.py).                                *)
(*                                                                         *)
(* Spec      : one callback instance (EarlyStopping or ModelCheckpoint)    *)
(*             driven through its lifecycle hooks by a training loop.      *)
(* SpecT2T   : the padding, block indexing, gather and scatter steps of    *)
(*             local_attention_2d applied to one feature map.              *)
(* SpecPG    : one call of parallel_generator (src/utils.py) with its      *)
(*             executor, its jobs and a keyboard interrupt.                *)
(***************************************************************************)
EXTENDS Integers, Sequences, FiniteSets, TLC

VARIABLES
    self,      \* the callback instance: attribute name -> value
    model,     \* the model object the callback is attached to
    files,     \* the checkpoint directory on disk
    epoch,     \* index the training loop passes to the next on_epoch_end
    log,       \* the completed on_epoch_end calls of the current run
    last,      \* what the last hook call did (exception, side effects)
    tin,       \* the arguments of the tensor pipeline
    tout,      \* the values the tensor pipeline has computed so far
    tpc,       \* the next step of the tensor pipeline
    pg         \* the parallel_generator call: its frame, futures and executor

cvars == <<self, model, files, epoch, log, last>>
tvars == <<tin, tout, tpc>>
vars == <<self, model, files, epoch, log, last, tin, tout, tpc, pg>>

-----------------------------------------------------------------------------
(* Bounds of the model *)

MaxScore == 2
MaxEpoch == 4
MaxPatience == 2

Scores == 0..MaxScore
Patiences == 1..MaxPatience

-----------------------------------------------------------------------------
(* Python values *)

\* An optional value: <<>> is None, <<v>> is the value v.
None == <<>>
Some(v) == <<v>>
IsNone(o) == o = <<>>

\* np.Inf and -np.Inf: beyond every finite score of the model.
Inf == MaxScore + 1
NegInf == 0 - (MaxScore + 1)

\* Strings are sequences of characters, so that the string operations of the
\* code are computed and not tabulated.
s_val == <<"v", "a", "l">>
s_acc == <<"a", "c", "c">>
s_accuracy == <<"a", "c", "c", "u", "r", "a", "c", "y">>
s_loss == <<"l", "o", "s", "s">>
s_val_acc == s_val \o <<"_">> \o s_acc
s_val_loss == s_val \o <<"_">> \o s_loss

Monitors == {s_val_acc, s_val_loss, s_acc, s_loss}
Metrics == {s_accuracy, s_loss}

\* str.startswith(prefix)
startswith(s, p) == Len(s) >= Len(p) /\ SubSeq(s, 1, Len(p)) = p

\* "p in s" for strings
contains(s, p) ==
    \E i \in 1..(Len(s) + 1) : i + Len(p) - 1 <= Len(s) /\ SubSeq(s, i, i + Len(p) - 1) = p

\* s.split("_")[-1]: the text after the last underscore (all of s without one)
split_last(s) ==
    LET us == {i \in 1..Len(s) : s[i] = "_"}
        cut == IF us = {} THEN 0 ELSE CHOOSE i \in us : \A j \in us : j <= i
    IN SubSeq(s, cut + 1, Len(s))

\* Objects are attribute dictionaries.
hasattr(obj, name) == name \in DOMAIN obj
setattr(obj, name, v) ==
    [a \in DOMAIN obj \cup {name} |-> IF a = name THEN v ELSE obj[a]]

np_less(a, b) == a < b
np_greater(a, b) == a > b

-----------------------------------------------------------------------------
(* Metric history: {"train": [...], "validate": [...]}, each entry a      *)
(* dictionary metric name -> score.  Only the last entry of a stream is    *)
(* read, so a stream of the model holds at most its latest record.  The    *)
(* records drawn hold no metric, one metric with any score, or both        *)
(* metrics with different scores; the histories drawn are None and those   *)
(* with one stream still empty.                                            *)

Records ==
    UNION {[D -> Scores] : D \in {S \in SUBSET Metrics : Cardinality(S) <= 1}}
    \cup {[m \in Metrics |-> IF m = s_loss THEN MaxScore - a ELSE a] : a \in Scores}
Streams == {<<>>} \cup {<<r>> : r \in Records}
Histories ==
    {None} \cup {Some([train |-> s, validate |-> <<>>]) : s \in Streams}
           \cup {Some([train |-> <<>>, validate |-> s]) : s \in Streams}

-----------------------------------------------------------------------------
(* Callback *)

\* Callback.__init__
Callback__init__(obj, monitor) ==
    [a \in DOMAIN obj \cup {"monitor", "monitor_op"} |->
        IF a = "monitor" THEN monitor
        ELSE IF a = "monitor_op"
             THEN (IF contains(monitor, s_acc) THEN "greater" ELSE "less")
             ELSE obj[a]]

\* Mutant: the comparators also accept an equal score.
monitor_op_or_equal(obj, a, b) ==
    IF obj.monitor_op = "greater" THEN a >= b ELSE a <= b

monitor_op(obj, a, b) ==
    IF obj.monitor_op = "greater" THEN np_greater(a, b) ELSE np_less(a, b)

\* Mutant: a missing metric reads as the score 0 (current.get(metric, 0)).
get_monitor_value_default(obj, history) ==
    LET h == IF IsNone(history)
             THEN [train |-> <<>>, validate |-> <<>>]
             ELSE history[1]
        hist == IF startswith(obj.monitor, s_val) THEN h.validate ELSE h.train
        m0 == split_last(obj.monitor)
        metric == IF m0 = s_acc THEN s_accuracy ELSE m0
    IN IF Len(hist) > 0
       THEN LET current == hist[Len(hist)]
                score == IF metric \in DOMAIN current
                         THEN Some(current[metric]) ELSE Some(0)
            IN [raised |-> "none", score |-> score, warned |-> FALSE]
       ELSE [raised |-> "UnboundLocalError", score |-> None, warned |-> FALSE]

\* Callback._get_monitor_value: [raised, score, warned]
_get_monitor_value(obj, history) ==
    LET h == IF IsNone(history)
             THEN [train |-> <<>>, validate |-> <<>>]
             ELSE history[1]
        hist == IF startswith(obj.monitor, s_val) THEN h.validate ELSE h.train
        m0 == split_last(obj.monitor)
        metric == IF m0 = s_acc THEN s_accuracy ELSE m0
    IN IF Len(hist) > 0
       THEN LET current == hist[Len(hist)]
                score == IF metric \in DOMAIN current
                         THEN Some(current[metric]) ELSE None
            IN [raised |-> "none", score |-> score, warned |-> IsNone(score)]
       ELSE \* `current` was never bound: current.get raises
            [raised |-> "UnboundLocalError", score |-> None, warned |-> FALSE]

-----------------------------------------------------------------------------
(* The effects of one hook call *)

\* What a history argument looks like from the monitor's side: None, the
\* monitored stream "empty", its latest record with the monitored metric
\* ("scored") or without it ("nometric").
HistoryShape(monitor, history) ==
    IF IsNone(history) THEN "None"
    ELSE LET stream == IF startswith(monitor, s_val)
                       THEN history[1].validate ELSE history[1].train
             name == IF split_last(monitor) = s_acc
                     THEN s_accuracy ELSE split_last(monitor)
         IN IF stream = <<>> THEN "empty"
            ELSE IF name \in DOMAIN stream[Len(stream)] THEN "scored"
            ELSE "nometric"

Call(op, arg, raised, score, effects) ==
    [op |-> op, arg |-> arg, raised |-> raised, score |-> score,
     effects |-> effects]

\* A call that raised before it changed anything.  The exception ends the
\* training loop's epoch, so the epoch index and the log stay as they are.
Raise(op, arg, exc) ==
    /\ last' = Call(op, arg, exc, None, {})
    /\ UNCHANGED <<self, model, files, epoch, log>>

\* A call that returned: the loop goes on to the next epoch.
Completed(score, acted) ==
    /\ epoch' = epoch + 1
    /\ log' = Append(log, [score |-> score, acted |-> acted])

\* Callback._set_model
_set_model ==
    /\ UNCHANGED <<tvars, pg>>
    /\ self' = setattr(self, "model", "model")
    /\ last' = Call("_set_model", "-", "none", None, {})
    /\ UNCHANGED <<model, files, epoch, log>>

-----------------------------------------------------------------------------
(* EarlyStopping *)

\* EarlyStopping.__init__
EarlyStopping__init__(patience, monitor) ==
    LET base == Callback__init__([cls |-> "EarlyStopping"], monitor)
    IN setattr(setattr(base, "patience", patience), "stopped_epoch", 0)

\* np.Inf if self.monitor_op == np.less else -np.Inf
initial_best(obj) == IF obj.monitor_op = "less" THEN Inf ELSE NegInf

\* EarlyStopping.on_train_begin: the attributes it assigns
EarlyStopping_reset(obj) ==
    setattr(setattr(obj, "wait", 0), "best", initial_best(obj))

EarlyStopping_on_train_begin ==
    /\ UNCHANGED <<tvars, pg>>
    /\ self.cls = "EarlyStopping"
    /\ self' = EarlyStopping_reset(self)
    /\ epoch' = 0
    /\ log' = <<>>
    /\ last' = Call("on_train_begin", "-", "none", None, {})
    /\ UNCHANGED <<model, files>>

\* Mutant: an improvement does not reset wait.
EarlyStopping_update_keeps_wait(obj, score) ==
    IF monitor_op(obj, score, obj.best)
    THEN setattr(obj, "best", score)
    ELSE setattr(obj, "wait", obj.wait + 1)

\* EarlyStopping.on_epoch_end, lines 90-94: the update of best and wait
EarlyStopping_update(obj, score) ==
    IF monitor_op(obj, score, obj.best)
    THEN setattr(setattr(obj, "best", score), "wait", 0)
    ELSE setattr(obj, "wait", obj.wait + 1)

\* Mutant: the stop needs wait to exceed patience.
EarlyStopping_should_stop_late(obj) == obj.wait > obj.patience

\* EarlyStopping.on_epoch_end, line 96: the stop condition
EarlyStopping_should_stop(obj) == obj.wait >= obj.patience

EarlyStopping_on_epoch_end ==
    /\ UNCHANGED <<tvars, pg>>
    /\ self.cls = "EarlyStopping"
    /\ epoch < MaxEpoch
    /\ \E history \in Histories :
        LET shape == HistoryShape(self.monitor, history) IN
        IF ~hasattr(self, "model")
        THEN Raise("on_epoch_end", shape, "AssertionError")
        ELSE LET r == _get_monitor_value(self, history) IN
             IF r.raised # "none"
             THEN Raise("on_epoch_end", shape, r.raised)
             ELSE IF IsNone(r.score)
             THEN /\ last' = Call("on_epoch_end", shape, "none", None, {"warning"})
                  /\ Completed(None, FALSE)
                  /\ UNCHANGED <<self, model, files>>
             ELSE IF ~hasattr(self, "best")
             THEN Raise("on_epoch_end", shape, "AttributeError")
             ELSE LET upd == EarlyStopping_update(self, r.score[1])
                      stop == EarlyStopping_should_stop(upd)
                  IN /\ self' = IF stop THEN setattr(upd, "stopped_epoch", epoch)
                                        ELSE upd
                     /\ model' = IF stop THEN setattr(model, "stop_training", TRUE)
                                         ELSE model
                     /\ last' = Call("on_epoch_end", shape, "none", r.score,
                                     IF stop THEN {"stop_training"} ELSE {})
                     /\ Completed(r.score, stop)
                     /\ UNCHANGED files

\* EarlyStopping.on_train_end
EarlyStopping_on_train_end ==
    /\ UNCHANGED <<tvars, pg>>
    /\ self.cls = "EarlyStopping"
    /\ last' = Call("on_train_end", "-", "none", None,
                    IF self.stopped_epoch > 0 THEN {"print"} ELSE {})
    /\ UNCHANGED <<self, model, files, epoch, log>>

-----------------------------------------------------------------------------
(* ModelCheckpoint *)

\* ModelCheckpoint.__init__
ModelCheckpoint__init__(monitor, save_best_only, save_weights_only) ==
    LET base == Callback__init__([cls |-> "ModelCheckpoint"], monitor)
    IN setattr(setattr(base, "save_best_only", save_best_only),
               "save_weights_only", save_weights_only)

\* ModelCheckpoint.on_train_begin
ModelCheckpoint_on_train_begin ==
    /\ UNCHANGED <<tvars, pg>>
    /\ self.cls = "ModelCheckpoint"
    /\ self' = setattr(self, "best", initial_best(self))
    /\ epoch' = 0
    /\ log' = <<>>
    /\ last' = Call("on_train_begin", "-", "none", None, {})
    /\ UNCHANGED <<model, files>>

\* Mutant: the directory is checked on every call.
ensure_path_exists_uncached(obj, fs) ==
    [obj |-> setattr(obj, "_path_checked", TRUE),
     files |-> [fs EXCEPT !.dir = TRUE],
     effects |-> {"ensure_path_exists"}]

\* ModelCheckpoint._ensure_path_exists with utils.ensure_path_exists:
\* [obj, files, effects]
_ensure_path_exists(obj, fs) ==
    IF hasattr(obj, "_path_checked") /\ obj._path_checked
    THEN [obj |-> obj, files |-> fs, effects |-> {}]
    ELSE [obj |-> setattr(obj, "_path_checked", TRUE),
          files |-> [fs EXCEPT !.dir = TRUE],
          effects |-> {"ensure_path_exists"}]

\* ModelCheckpoint._save_model: [obj, files, raised, effects].  The weights
\* written are those of the model after the epoch `ep`.
_save_model(obj, fs, ep) ==
    LET e == _ensure_path_exists(obj, fs) IN
    IF ~hasattr(e.obj, "model")
    THEN [obj |-> e.obj, files |-> e.files, raised |-> "AttributeError",
          effects |-> e.effects]
    ELSE IF ~e.obj.save_weights_only
    THEN [obj |-> e.obj,
          files |-> [e.files EXCEPT !.arch = Some("yaml"), !.weights = Some(ep)],
          raised |-> "none",
          effects |-> e.effects \cup {"write_arch", "write_weights"}]
    ELSE [obj |-> e.obj,
          files |-> [e.files EXCEPT !.weights = Some(ep)],
          raised |-> "none",
          effects |-> e.effects \cup {"write_weights"}]

\* Mutant: a score equal to best is saved too.
ModelCheckpoint_improves_or_equal(obj, score) ==
    IF obj.monitor_op = "greater" THEN score >= obj.best ELSE score <= obj.best

\* ModelCheckpoint.on_epoch_end, line 123: whether the score is saved
ModelCheckpoint_improves(obj, score) == monitor_op(obj, score, obj.best)

\* The end of a call that reached _save_model.
Saved(obj, arg, score) ==
    LET s == _save_model(obj, files, epoch) IN
    /\ self' = s.obj
    /\ files' = s.files
    /\ last' = Call("on_epoch_end", arg, s.raised, score, s.effects)
    /\ IF s.raised = "none"
       THEN Completed(score, TRUE)
       ELSE UNCHANGED <<epoch, log>>
    /\ UNCHANGED model

ModelCheckpoint_on_epoch_end ==
    /\ UNCHANGED <<tvars, pg>>
    /\ self.cls = "ModelCheckpoint"
    /\ epoch < MaxEpoch
    /\ \E history \in Histories :
        LET shape == HistoryShape(self.monitor, history) IN
        IF self.save_best_only
        THEN LET r == _get_monitor_value(self, history) IN
             IF r.raised # "none"
             THEN Raise("on_epoch_end", shape, r.raised)
             ELSE IF IsNone(r.score)
             THEN /\ last' = Call("on_epoch_end", shape, "none", None, {"warning"})
                  /\ Completed(None, FALSE)
                  /\ UNCHANGED <<self, model, files>>
             ELSE IF ~hasattr(self, "best")
             THEN Raise("on_epoch_end", shape, "AttributeError")
             ELSE IF ModelCheckpoint_improves(self, r.score[1])
             THEN Saved(setattr(self, "best", r.score[1]), shape, r.score)
             ELSE /\ last' = Call("on_epoch_end", shape, "none", r.score, {})
                  /\ Completed(r.score, FALSE)
                  /\ UNCHANGED <<self, model, files>>
        ELSE Saved(self, shape, None)

\* Callback.on_train_end, which ModelCheckpoint inherits
Callback_on_train_end ==
    /\ UNCHANGED <<tvars, pg>>
    /\ self.cls = "ModelCheckpoint"
    /\ last' = Call("on_train_end", "-", "none", None, {})
    /\ UNCHANGED <<self, model, files, epoch, log>>

-----------------------------------------------------------------------------
(* The callback under a training loop *)

Init ==
    /\ self \in {EarlyStopping__init__(p, m) : p \in Patiences, m \in Monitors}
           \cup {ModelCheckpoint__init__(m, b, w) :
                    m \in Monitors, b \in BOOLEAN, w \in BOOLEAN}
    /\ model = [stop_training |-> FALSE]
    /\ files \in {[dir |-> d, arch |-> None, weights |-> None] :
                    d \in IF self.cls = "ModelCheckpoint" THEN BOOLEAN ELSE {FALSE}}
    /\ epoch = 0
    /\ log = <<>>
    /\ last = Call("__init__", "-", "none", None, {})
    /\ tin = <<>> /\ tout = <<>> /\ tpc = "off"
    /\ pg = <<>>

Next ==
    \/ _set_model
    \/ EarlyStopping_on_train_begin
    \/ EarlyStopping_on_epoch_end
    \/ EarlyStopping_on_train_end
    \/ ModelCheckpoint_on_train_begin
    \/ ModelCheckpoint_on_epoch_end
    \/ Callback_on_train_end

Spec == Init /\ [][Next]_vars

-----------------------------------------------------------------------------
(* Tensors: a shape and the entries in row-major order, indexed from 0.    *)

MaxDim == 3
MaxBlock == 2
MaxFlange == 1

RECURSIVE Prod(_)
Prod(s) == IF s = <<>> THEN 1 ELSE Head(s) * Prod(Tail(s))

\* The sum of f[k] over the k of S.
RECURSIVE SumOver(_, _)
SumOver(f, S) ==
    IF S = {} THEN 0
    ELSE LET k == CHOOSE k \in S : TRUE IN f[k] + SumOver(f, S \ {k})

\* The row-major offset of an index tuple, and back.
RECURSIVE Ravel(_, _)
Ravel(idx, shape) ==
    IF Len(idx) = 0 THEN 0
    ELSE LET n == Len(idx)
         IN Ravel(SubSeq(idx, 1, n - 1), SubSeq(shape, 1, n - 1)) * shape[n] + idx[n]

RECURSIVE Unravel(_, _)
Unravel(l, shape) ==
    IF Len(shape) = 0 THEN <<>>
    ELSE LET n == Len(shape)
         IN Append(Unravel(l \div shape[n], SubSeq(shape, 1, n - 1)), l % shape[n])

Tensor(shape, data) == [shape |-> shape, data |-> data]
Offsets(shape) == 0..(Prod(shape) - 1)
At(t, idx) == t.data[Ravel(idx, t.shape)]

\* shape_list: every dimension is static in the model
shape_list(t) == t.shape

\* tf.reshape: the entries keep their order; one dimension may be -1
tf_reshape(t, shape) ==
    LET known == Prod([i \in 1..Len(shape) |-> IF shape[i] = -1 THEN 1 ELSE shape[i]])
        full == [i \in 1..Len(shape) |->
                    IF shape[i] = -1 THEN Prod(t.shape) \div known ELSE shape[i]]
    IN Tensor(full, t.data)

\* reshape_range: t_shape[:i] + shape + t_shape[j:]
reshape_range(t, i, j, shape) ==
    tf_reshape(t, SubSeq(t.shape, 1, i) \o shape \o SubSeq(t.shape, j + 1, Len(t.shape)))

\* tf.transpose(t, perm), perm counted from 0
tf_transpose(t, perm) ==
    LET r == Len(perm)
        oshape == [d \in 1..r |-> t.shape[perm[d] + 1]]
        src(idx) == [k \in 1..r |-> idx[CHOOSE d \in 1..r : perm[d] + 1 = k]]
    IN Tensor(oshape, [l \in Offsets(oshape) |-> At(t, src(Unravel(l, oshape)))])

\* tf.pad(t, paddings): zeros before and after each dimension
tf_pad(t, paddings) ==
    LET r == Len(t.shape)
        oshape == [d \in 1..r |-> paddings[d][1] + t.shape[d] + paddings[d][2]]
        inside(idx) == \A d \in 1..r :
            idx[d] >= paddings[d][1] /\ idx[d] < paddings[d][1] + t.shape[d]
        src(idx) == [d \in 1..r |-> idx[d] - paddings[d][1]]
    IN Tensor(oshape, [l \in Offsets(oshape) |->
            LET idx == Unravel(l, oshape)
            IN IF inside(idx) THEN At(t, src(idx)) ELSE 0])

\* tf.gather(params, indices) along the first dimension of params
tf_gather(params, indices) ==
    LET ri == Len(indices.shape)
        oshape == indices.shape \o Tail(params.shape)
    IN Tensor(oshape, [l \in Offsets(oshape) |->
            LET idx == Unravel(l, oshape)
                row == At(indices, SubSeq(idx, 1, ri))
            IN At(params, <<row>> \o SubSeq(idx, ri + 1, Len(idx)))])

\* tf.scatter_nd(indices, updates, shape) with indices of shape [n, 1]:
\* updates sent to the same row are added, rows never written are zero
tf_scatter_nd(indices, updates, shape) ==
    Tensor(shape, [l \in Offsets(shape) |->
        LET idx == Unravel(l, shape)
            sent == {k \in 0..(indices.shape[1] - 1) : indices.data[k] = idx[1]}
        IN SumOver([k \in sent |-> At(updates, <<k>> \o Tail(idx))], sent)])

tf_range(n) == Tensor(<<n>>, [l \in 0..(n - 1) |-> l])
tf_eye(n) == Tensor(<<n, n>>, [l \in 0..(n * n - 1) |-> IF l \div n = l % n THEN 1 ELSE 0])

\* tf.cast(., tf.float32) of an integer: exact below 2^24, beyond it rounded
\* to the nearest representable value, ties to even.
FLOAT32_EXACT == 16777216
RECURSIVE Ulp(_, _)
Ulp(n, u) == IF n < u * FLOAT32_EXACT THEN u ELSE Ulp(n, 2 * u)
float32(n) ==
    LET u == Ulp(n, 1)
        q == n \div u
        r == n % u
    IN IF 2 * r < u THEN q * u
       ELSE IF 2 * r > u THEN (q + 1) * u
       ELSE IF q % 2 = 0 THEN q * u ELSE (q + 1) * u
cast_float32(t) == Tensor(t.shape, [l \in DOMAIN t.data |-> float32(t.data[l])])

\* tf.nn.conv2d(input, kernel, strides, "VALID") of a one-channel input of
\* shape [1, h, w, 1] with a kernel of shape [kh, kw, 1, c]
tf_nn_conv2d(input, kernel, strides) ==
    LET h == input.shape[2]
        w == input.shape[3]
        kh == kernel.shape[1]
        kw == kernel.shape[2]
        oh == IF h < kh THEN 0 ELSE (h - kh) \div strides[1] + 1
        ow == IF w < kw THEN 0 ELSE (w - kw) \div strides[2] + 1
        oshape == <<1, oh, ow, kernel.shape[4]>>
    IN Tensor(oshape, [l \in Offsets(oshape) |->
            LET o == Unravel(l, oshape)
                \* the window offsets whose kernel entry is not zero
                taps == {k \in 0..(kh * kw - 1) :
                            At(kernel, <<k \div kw, k % kw, 0, o[4]>>) # 0}
            IN SumOver([k \in taps |->
                    At(input, <<0, o[2] * strides[1] + (k \div kw),
                                o[3] * strides[2] + (k % kw), 0>>)
                    * At(kernel, <<k \div kw, k % kw, 0, o[4]>>)], taps)])

-----------------------------------------------------------------------------
(* src/models/t2t.py *)

\* Mutant: the padding is block - size % block, a whole block for a size
\* that is a multiple already.
pad_to_multiple_2d_full_block(x, block_shape) ==
    LET r == Len(x.shape)
        height_padding == block_shape[1] - (x.shape[r - 2] % block_shape[1])
        width_padding == block_shape[2] - (x.shape[r - 1] % block_shape[2])
    IN tf_pad(x, [d \in 1..r |->
            IF d = r - 2 THEN <<0, height_padding>>
            ELSE IF d = r - 1 THEN <<0, width_padding>> ELSE <<0, 0>>])

\* pad_to_multiple_2d
pad_to_multiple_2d(x, block_shape) ==
    LET old_shape == x.shape IN
    IF Len(old_shape) = 4
    THEN LET height_padding == (0 - shape_list(x)[2]) % block_shape[1]
             width_padding == (0 - shape_list(x)[3]) % block_shape[2]
         IN tf_pad(x, <<<<0, 0>>, <<0, height_padding>>, <<0, width_padding>>, <<0, 0>>>>)
    ELSE LET height_padding == (0 - shape_list(x)[3]) % block_shape[1]
             width_padding == (0 - shape_list(x)[4]) % block_shape[2]
         IN tf_pad(x, <<<<0, 0>>, <<0, 0>>, <<0, height_padding>>,
                        <<0, width_padding>>, <<0, 0>>>>)

\* Mutant: the convolution ignores the stride.
gather_indices_2d_unit_stride(x, block_shape, block_stride) ==
    LET kernel == reshape_range(tf_eye(block_shape[1] * block_shape[2]), 0, 1,
                                <<block_shape[1], block_shape[2], 1>>)
        x_shape == shape_list(x)
        indices == tf_reshape(tf_range(x_shape[3] * x_shape[4]),
                              <<1, x_shape[3], x_shape[4], 1>>)
        conv == tf_nn_conv2d(cast_float32(indices), kernel, <<1, 1>>)
        num_blocks == Prod(SubSeq(shape_list(conv), 1, 3))
    IN tf_reshape(conv, <<num_blocks, -1>>)

\* gather_indices_2d
gather_indices_2d(x, block_shape, block_stride) ==
    LET kernel == reshape_range(tf_eye(block_shape[1] * block_shape[2]), 0, 1,
                                <<block_shape[1], block_shape[2], 1>>)
        x_shape == shape_list(x)
        indices == tf_reshape(tf_range(x_shape[3] * x_shape[4]),
                              <<1, x_shape[3], x_shape[4], 1>>)
        conv == tf_nn_conv2d(cast_float32(indices), kernel, block_stride)
        num_blocks == Prod(SubSeq(shape_list(conv), 1, 3))
    IN tf_reshape(conv, <<num_blocks, -1>>)

\* gather_blocks_2d
gather_blocks_2d(x, indices) ==
    LET x_shape == shape_list(x)
        flat == reshape_range(x, 2, 4, <<Prod(SubSeq(x_shape, 3, 4))>>)
        x_t == tf_transpose(flat, <<2, 0, 1, 3>>)
        x_new == tf_gather(x_t, indices)
    IN tf_transpose(x_new, <<2, 3, 0, 1, 4>>)

\* Mutant: the scattered rows are transposed back in the wrong order.
scatter_blocks_2d_wrong_perm(x, indices, shape) ==
    LET x_shape == shape_list(x)
        x_t == tf_transpose(
                  tf_reshape(x, <<x_shape[1], x_shape[2], -1, x_shape[Len(x_shape)]>>),
                  <<2, 0, 1, 3>>)
        x_t_shape == shape_list(x_t)
        flat == tf_reshape(indices, <<-1, 1>>)
        scattered_x == tf_scatter_nd(flat, x_t, x_t_shape)
    IN tf_reshape(tf_transpose(scattered_x, <<1, 0, 2, 3>>), shape)

\* scatter_blocks_2d
scatter_blocks_2d(x, indices, shape) ==
    LET x_shape == shape_list(x)
        x_t == tf_transpose(
                  tf_reshape(x, <<x_shape[1], x_shape[2], -1, x_shape[Len(x_shape)]>>),
                  <<2, 0, 1, 3>>)
        x_t_shape == shape_list(x_t)
        flat == tf_reshape(indices, <<-1, 1>>)
        scattered_x == tf_scatter_nd(flat, x_t, x_t_shape)
    IN tf_reshape(tf_transpose(scattered_x, <<1, 2, 0, 3>>), shape)

\* local_attention_2d, line 226: the paddings of k and v
flange_paddings(memory_flange) ==
    <<<<0, 0>>, <<0, 0>>, <<memory_flange[1], memory_flange[2]>>,
      <<memory_flange[1], memory_flange[2]>>, <<0, 0>>>>

\* local_attention_2d, line 235
memory_shape(query_shape, memory_flange) ==
    <<query_shape[1] + 2 * memory_flange[1], query_shape[2] + 2 * memory_flange[2]>>

-----------------------------------------------------------------------------
(* The steps of local_attention_2d on one feature map x (q = k = v = x;    *)
(* v takes the steps of k).  The attention between the gather and the      *)
(* scatter is left out: the gathered query blocks are scattered back.      *)

\* The shapes of x apart from height and width: (batch, heads, channels).
Outer == {<<1, 1, 1>>, <<2, 1, 2>>, <<1, 2, 1>>}

\* A feature map with pairwise different entries, none of them zero.
FeatureMap(shape) == Tensor(shape, [l \in Offsets(shape) |-> l + 1])

\* Rank-5 maps [batch, heads, height, width, channels] with a flange, and
\* rank-4 maps [batch, height, width, channels], which are only padded.
Inputs ==
    {[x |-> FeatureMap(<<o[1], o[2], h, w, o[3]>>), query_shape |-> <<bh, bw>>,
      memory_flange |-> <<fh, fw>>] :
        o \in Outer, h \in 1..MaxDim, w \in 1..MaxDim,
        bh \in 1..MaxBlock, bw \in 1..MaxBlock,
        fh \in 0..MaxFlange, fw \in 0..MaxFlange}
    \cup
    {[x |-> FeatureMap(<<o[1], h, w, o[3]>>), query_shape |-> <<bh, bw>>,
      memory_flange |-> <<0, 0>>] :
        o \in Outer, h \in 1..MaxDim, w \in 1..MaxDim,
        bh \in 1..MaxBlock, bw \in 1..MaxBlock}

T2TInit ==
    /\ tin \in Inputs
    /\ tout = <<>>
    /\ tpc = "pad"
    /\ self = <<>> /\ model = <<>> /\ files = <<>> /\ epoch = 0 /\ log = <<>>
    /\ last = <<>>
    /\ pg = <<>>

\* lines 223-225
pad_inputs ==
    /\ tpc = "pad"
    /\ LET padded == pad_to_multiple_2d(tin.x, tin.query_shape)
       IN tout' = [q |-> padded, k |-> padded]
    /\ tpc' = IF Len(tin.x.shape) = 5 THEN "flange" ELSE "done"
    /\ UNCHANGED <<tin, cvars, pg>>

\* lines 226-228
pad_flange ==
    /\ tpc = "flange"
    /\ tout' = setattr(tout, "k", tf_pad(tout.k, flange_paddings(tin.memory_flange)))
    /\ tpc' = "query"
    /\ UNCHANGED <<tin, cvars, pg>>

\* lines 231-232
query_blocks ==
    /\ tpc = "query"
    /\ LET q_indices == gather_indices_2d(tout.q, tin.query_shape, tin.query_shape)
       IN tout' = setattr(setattr(tout, "q_indices", q_indices),
                          "q_new", gather_blocks_2d(tout.q, q_indices))
    /\ tpc' = "memory"
    /\ UNCHANGED <<tin, cvars, pg>>

\* lines 235-238; the convolution fails when the block exceeds the grid
memory_blocks ==
    /\ tpc = "memory"
    /\ LET shape == memory_shape(tin.query_shape, tin.memory_flange)
           fits == shape[1] <= tout.k.shape[3] /\ shape[2] <= tout.k.shape[4]
       IN IF fits
          THEN LET k_and_v_indices == gather_indices_2d(tout.k, shape, tin.query_shape)
               IN /\ tout' = setattr(setattr(tout, "k_and_v_indices", k_and_v_indices),
                                     "k_new", gather_blocks_2d(tout.k, k_and_v_indices))
                  /\ tpc' = "scatter"
          ELSE /\ tout' = tout
               /\ tpc' = "raised"
    /\ UNCHANGED <<tin, cvars, pg>>

\* line 244, applied to the gathered query blocks
scatter_query_blocks ==
    /\ tpc = "scatter"
    /\ tout' = setattr(tout, "output",
                       scatter_blocks_2d(tout.q_new, tout.q_indices, shape_list(tout.q)))
    /\ tpc' = "done"
    /\ UNCHANGED <<tin, cvars, pg>>

T2TNext ==
    \/ pad_inputs
    \/ pad_flange
    \/ query_blocks
    \/ memory_blocks
    \/ scatter_query_blocks

SpecT2T == T2TInit /\ [][T2TNext]_vars

-----------------------------------------------------------------------------
(* utils.parallel_generator: one call, its executor and its jobs *)

MaxJobs == 3
MaxWorkers == 2
MaxChunk == 2

\* lines 228-234: max_workers after the comparison with chunk_size
adjusted_max_workers(max_workers, chunk_size) ==
    IF ~IsNone(chunk_size) /\ max_workers > chunk_size[1]
    THEN chunk_size[1] ELSE max_workers

\* lines 239-245: int(chunks) and slice_len
num_chunks(n, chunk_size) ==
    IF IsNone(chunk_size) THEN 1
    ELSE IF (n \div chunk_size[1]) * chunk_size[1] < n
    THEN (n \div chunk_size[1]) + 1
    ELSE n \div chunk_size[1]

slice_length(n, chunk_size) == IF IsNone(chunk_size) THEN n ELSE chunk_size[1]

\* lines 248-249, with the clipping of input_list[start_idx:end_idx]
start_idx(f) ==
    IF f.chunk_idx * f.slice_len < f.n THEN f.chunk_idx * f.slice_len ELSE f.n
end_idx(f) ==
    IF (f.chunk_idx + 1) * f.slice_len < f.n
    THEN (f.chunk_idx + 1) * f.slice_len ELSE f.n

\* future_to_input of the current chunk, by input index
future_to_input(f) == {i \in start_idx(f)..(end_idx(f) - 1) : f.jobs[i] # "new"}

Submitted(f) == {i \in DOMAIN f.jobs : f.jobs[i] # "new"}
Outstanding(f) == {i \in DOMAIN f.jobs : f.jobs[i] \in {"pending", "running"}}

\* The generator's frame after lines 228-245.
Frame(n, max_workers, chunk_size) ==
    [n |-> n,
     max_workers |-> adjusted_max_workers(max_workers, chunk_size),
     chunks |-> num_chunks(n, chunk_size),
     slice_len |-> slice_length(n, chunk_size),
     chunk_idx |-> 0,
     idx |-> 0,                           \* next input to submit
     jobs |-> [i \in 0..(n - 1) |-> "new"], \* new, pending, running, done, cancelled
     yielded |-> {},
     cancel_i |-> 0,                      \* position of the cancel loop
     cancel_called |-> {},
     executor |-> "open",
     interrupt |-> None,                  \* where the interrupt arrived
     pc |-> "for"]

PGInit ==
    /\ pg \in {Frame(n, w, c) :
                n \in 0..MaxJobs, w \in 1..MaxWorkers,
                c \in {None} \cup {Some(k) : k \in 1..MaxChunk}}
    /\ self = <<>> /\ model = <<>> /\ files = <<>> /\ epoch = 0 /\ log = <<>>
    /\ last = <<>>
    /\ tin = <<>> /\ tout = <<>> /\ tpc = "off"

PGUnchanged == UNCHANGED <<cvars, tvars>>

\* line 247: for chunk_idx in range(int(chunks)), and line 268 after it
for_chunk ==
    /\ pg.pc = "for"
    /\ pg' = IF pg.chunk_idx < pg.chunks
             THEN [pg EXCEPT !.pc = "submit", !.idx = start_idx(pg)]
             ELSE [pg EXCEPT !.pc = "shutdown"]
    /\ PGUnchanged

\* lines 251-254: one turn of the submission loop, or its end (line 256)
submit ==
    /\ pg.pc = "submit"
    /\ pg' = IF pg.idx < end_idx(pg)
             THEN [pg EXCEPT !.jobs[pg.idx] = "pending", !.idx = pg.idx + 1]
             ELSE [pg EXCEPT !.pc = "collect"]
    /\ PGUnchanged

\* The executor starts a pending job when a worker is free.
worker_start ==
    /\ \E i \in DOMAIN pg.jobs :
        /\ pg.jobs[i] = "pending"
        /\ Cardinality({j \in DOMAIN pg.jobs : pg.jobs[j] = "running"}) < pg.max_workers
        /\ pg' = [pg EXCEPT !.jobs[i] = "running"]
    /\ PGUnchanged

\* A running job returns.
worker_finish ==
    /\ \E i \in DOMAIN pg.jobs :
        /\ pg.jobs[i] = "running"
        /\ pg' = [pg EXCEPT !.jobs[i] = "done"]
    /\ PGUnchanged

\* lines 257-259: as_completed hands over a finished future and the generator
\* yields its result; when every future of the chunk was yielded the loop
\* goes on to the next chunk.
as_completed ==
    /\ pg.pc = "collect"
    /\ IF future_to_input(pg) \subseteq pg.yielded
       THEN pg' = [pg EXCEPT !.chunk_idx = pg.chunk_idx + 1, !.pc = "for"]
       ELSE \E i \in future_to_input(pg) \ pg.yielded :
                /\ pg.jobs[i] = "done"
                /\ pg' = [pg EXCEPT !.yielded = pg.yielded \cup {i},
                                    !.pc = "yielded"]
    /\ PGUnchanged

\* The consumer asks for the next result: the generator resumes after yield.
resume ==
    /\ pg.pc = "yielded"
    /\ pg' = [pg EXCEPT !.pc = "collect"]
    /\ PGUnchanged

\* line 268: executor.shutdown() after the last chunk
executor_shutdown ==
    /\ pg.pc = "shutdown"
    /\ Outstanding(pg) = {}
    /\ pg' = [pg EXCEPT !.executor = "shutdown", !.pc = "finished"]
    /\ PGUnchanged

\* A keyboard interrupt arrives.  Inside the try block (lines 256-259) it
\* enters the handler; in generator code outside the try block it leaves the
\* generator at once; while the generator is suspended at yield it is raised
\* in the consumer and never enters the generator.
KeyboardInterrupt ==
    /\ IsNone(pg.interrupt)
    /\ pg.pc \in {"for", "submit", "collect", "yielded", "shutdown"}
    /\ pg' = [pg EXCEPT
            !.interrupt = Some([at |-> pg.pc,
                                submitted |-> Submitted(pg),
                                outstanding |-> Outstanding(pg)]),
            !.cancel_i = start_idx(pg),
            !.pc = IF pg.pc = "collect" THEN "cancel"
                   ELSE IF pg.pc = "yielded" THEN "abandoned"
                   ELSE "raised"]
    /\ PGUnchanged

\* lines 261-265: one turn of the cancel loop; cancel() succeeds on a job that
\* has not started and fails (with a warning) on any other.
cancel ==
    /\ pg.pc = "cancel"
    /\ pg' = IF pg.cancel_i < end_idx(pg)
             THEN [pg EXCEPT
                    !.jobs[pg.cancel_i] =
                        IF pg.jobs[pg.cancel_i] = "pending"
                        THEN "cancelled" ELSE pg.jobs[pg.cancel_i],
                    !.cancel_called = pg.cancel_called \cup {pg.cancel_i},
                    !.cancel_i = pg.cancel_i + 1]
             ELSE [pg EXCEPT !.pc = "handler_shutdown"]
    /\ PGUnchanged

\* lines 266-267: executor.shutdown() returns when no job is left, then the
\* interrupt is raised again.
handler_shutdown ==
    /\ pg.pc = "handler_shutdown"
    /\ Outstanding(pg) = {}
    /\ pg' = [pg EXCEPT !.executor = "shutdown", !.pc = "raised"]
    /\ PGUnchanged

PGNext ==
    \/ for_chunk
    \/ submit
    \/ worker_start
    \/ worker_finish
    \/ as_completed
    \/ resume
    \/ executor_shutdown
    \/ KeyboardInterrupt
    \/ cancel
    \/ handler_shutdown

SpecPG == PGInit /\ [][PGNext]_vars

-----------------------------------------------------------------------------
(* Vocabulary of the claims about the callbacks *)

IsES == self.cls = "EarlyStopping"
IsMC == self.cls = "ModelCheckpoint"
attached == hasattr(self, "model")
begun == hasattr(self, "best")

\* The monitor is minimised unless its name contains "acc".
Minimising == ~contains(self.monitor, s_acc)
Better(a, b) == IF Minimising THEN a < b ELSE a > b

Min(S) == CHOOSE x \in S : \A y \in S : x <= y
Max(S) == CHOOSE x \in S : \A y \in S : x >= y

\* The calls of the current run, by position in the log (epoch + 1).
Calls == 1..Len(log)
ScoredAt(i) == ~IsNone(log[i].score)
ScoreAt(i) == log[i].score[1]
ScoredCalls == {i \in Calls : ScoredAt(i)}

\* The extremum of the scores seen in the current run.
RunningBest ==
    LET seen == {ScoreAt(i) : i \in ScoredCalls}
    IN IF Minimising THEN Min(seen \cup {Inf}) ELSE Max(seen \cup {NegInf})

\* Call i improves: its score is better than every score seen before it.
ImprovesAt(i) ==
    /\ ScoredAt(i)
    /\ \A j \in 1..(i - 1) : ScoredAt(j) => Better(ScoreAt(i), ScoreAt(j))

\* Call i strictly worsens: its score is worse than that of the call before.
WorsensAt(i) ==
    /\ i > 1 /\ i <= Len(log)
    /\ ScoredAt(i) /\ ScoredAt(i - 1)
    /\ Better(ScoreAt(i - 1), ScoreAt(i))

\* The scored calls up to call n since the last improving one.
WaitAfter(n) ==
    LET imps == {i \in 1..n : ImprovesAt(i)}
        from == IF imps = {} THEN 0 ELSE Max(imps)
    IN Cardinality({i \in ScoredCalls : from < i /\ i <= n})

\* A call of the current run raised the stop signal.
Signalled == \E i \in Calls : log[i].acted

\* This step is an on_epoch_end call that returned.
EpochEnded == epoch' = epoch + 1

-----------------------------------------------------------------------------
(* C1 - stop timing of EarlyStopping *)

\* C1 as stated: after an improvement at epoch e followed by patience+1
\* strictly worsening epochs, the first stop signal since e is raised by the
\* call for epoch e + patience + 1.
C1_StopsAtPatiencePlusOne ==
    IsES =>
        \A e \in Calls :
            (/\ ImprovesAt(e)
             /\ \A k \in 1..(self.patience + 1) : WorsensAt(e + k))
            => /\ log[e + self.patience + 1].acted
               /\ \A j \in e..(e + self.patience) : ~log[j].acted

\* C1 amended: after an improvement at epoch e followed by patience strictly
\* worsening epochs, the first stop signal since e is raised by the call for
\* epoch e + patience.
C1_StopsAtPatience ==
    IsES =>
        \A e \in Calls :
            (/\ ImprovesAt(e)
             /\ \A k \in 1..self.patience : WorsensAt(e + k))
            => /\ log[e + self.patience].acted
               /\ \A j \in e..(e + self.patience - 1) : ~log[j].acted

\* An improvement followed by patience+1 strictly worsening epochs happened.
C1_Witness ==
    /\ IsES
    /\ \E e \in Calls :
        /\ ImprovesAt(e)
        /\ \A k \in 1..(self.patience + 1) : WorsensAt(e + k)
        /\ log[e + self.patience].acted

-----------------------------------------------------------------------------
(* C2 - transition rule of EarlyStopping *)

\* C2: after on_train_begin the comparator follows the monitor name, best is
\* the extremum of the scores seen in the run (plus or minus infinity before
\* the first), wait is the number of scored epochs since the last improvement,
\* and the stop signal is raised, with stopped_epoch the epoch of the call, in
\* exactly the calls that end with wait >= patience.
C2_TransitionRule ==
    (IsES /\ begun) =>
        /\ self.monitor_op = (IF Minimising THEN "less" ELSE "greater")
        /\ self.best = RunningBest
        /\ self.wait = WaitAfter(Len(log))
        /\ \A i \in Calls :
            log[i].acted <=> (ScoredAt(i) /\ WaitAfter(i) >= self.patience)
        /\ Signalled =>
            /\ model.stop_training
            /\ self.stopped_epoch = Max({i \in Calls : log[i].acted}) - 1

\* A run that signalled the stop and improved again afterwards.
C2_Witness ==
    /\ IsES /\ begun
    /\ \E i, j \in Calls : i < j /\ log[i].acted /\ ImprovesAt(j)
    /\ self.wait = 0

-----------------------------------------------------------------------------
(* C3 - gating of ModelCheckpoint with save_best_only *)

Writes == {"write_weights", "write_arch"}

\* C3: with save_best_only, a call whose score improves over the running best
\* (the field best) writes the weights and sets best to the score; a call
\* whose score does not improve writes nothing and leaves the files and best
\* unchanged.
C3_CheckpointGating ==
    [][(IsMC /\ self.save_best_only /\ attached /\ begun /\ EpochEnded
            /\ ~IsNone(last'.score))
       => IF Better(last'.score[1], self.best)
          THEN /\ "write_weights" \in last'.effects
               /\ files'.weights = Some(epoch)
               /\ self'.best = last'.score[1]
          ELSE /\ last'.effects \cap Writes = {}
               /\ files' = files
               /\ self'.best = self.best]_vars

\* A checkpoint was written and a later call with a score wrote nothing.
C3_Witness ==
    /\ IsMC /\ self.save_best_only /\ attached /\ begun
    /\ \E i, j \in Calls : i < j /\ log[i].acted /\ ScoredAt(j) /\ ~log[j].acted
    /\ ~IsNone(files.weights)

-----------------------------------------------------------------------------
(* C4 - the monitored metric is missing from the latest record *)

\* This step is an on_epoch_end call whose latest record lacks the metric.
MetricMissing ==
    /\ attached
    /\ last'.op = "on_epoch_end" /\ last'.arg = "nometric"
    /\ (EpochEnded \/ last'.raised # "none")

Skipped ==
    /\ last'.raised = "none"
    /\ last'.effects \cap (Writes \cup {"stop_training"}) = {}
    /\ self' = self /\ model' = model /\ files' = files

\* C4 as stated: for EarlyStopping and for ModelCheckpoint in every
\* configuration, a call whose latest record lacks the monitored metric
\* raises nothing, signals and writes nothing and changes no state.
C4_MissingMetricSkipsAlways == [][MetricMissing => Skipped]_vars

\* C4 amended: the same for EarlyStopping and for ModelCheckpoint with
\* save_best_only (without it the metric is not looked at).
C4_MissingMetricSkips ==
    [][(MetricMissing /\ (IsES \/ self.save_best_only)) => Skipped]_vars

\* A call skipped for a missing metric, after a call that had a score.
C4_Witness ==
    /\ attached /\ begun
    /\ IsES \/ self.save_best_only
    /\ last.op = "on_epoch_end" /\ last.arg = "nometric" /\ last.raised = "none"
    /\ Len(log) >= 2 /\ ScoredAt(Len(log) - 1) /\ ~ScoredAt(Len(log))

-----------------------------------------------------------------------------
(* C5 - reset at training start *)

\* C5 as stated: every on_train_begin leaves an EarlyStopping instance with
\* best, wait and stopped_epoch at their initial values.
C5_TrainBeginResetsAll ==
    (IsES /\ last.op = "on_train_begin") =>
        /\ self.wait = 0
        /\ self.best = (IF Minimising THEN Inf ELSE NegInf)
        /\ self.stopped_epoch = 0

-----------------------------------------------------------------------------
(* C6 - EarlyStopping after the stop signal *)

\* C6 as stated: once the stop has been signalled in a run, a further
\* on_epoch_end call leaves best, wait and stopped_epoch as they were.
C6_TerminalAfterSignal ==
    [][(IsES /\ Signalled /\ EpochEnded)
       => /\ self'.best = self.best
          /\ self'.wait = self.wait
          /\ self'.stopped_epoch = self.stopped_epoch]_vars

\* C6 amended: once the stop has been signalled in a run, stop_training stays
\* set; a further call without a score changes nothing, and a further call
\* with a score still applies the transition rule: an improving score replaces
\* best and resets wait, any other score increments wait and, with wait >=
\* patience, moves stopped_epoch to the epoch of that call.
C6_TransitionsAfterSignal ==
    [][(IsES /\ Signalled /\ EpochEnded)
       => /\ model'.stop_training
          /\ IF IsNone(last'.score) THEN self' = self
             ELSE IF Better(last'.score[1], self.best)
             THEN /\ self'.best = last'.score[1]
                  /\ self'.wait = 0
                  /\ self'.stopped_epoch = self.stopped_epoch
             ELSE /\ self'.best = self.best
                  /\ self'.wait = self.wait + 1
                  /\ self'.stopped_epoch =
                        IF self.wait + 1 >= self.patience
                        THEN epoch ELSE self.stopped_epoch]_vars

\* A call with a score was made after the stop had been signalled and
\* changed best, wait and stopped_epoch.
C6_Witness ==
    /\ IsES
    /\ \E i \in Calls : i + 1 < Len(log) /\ log[i].acted
    /\ ImprovesAt(Len(log) - 1)
    /\ log[Len(log)].acted

-----------------------------------------------------------------------------
(* C12 - persistence by ModelCheckpoint *)

\* This step is an on_epoch_end call, returned or raised.
EpochEndCalled ==
    /\ last'.op = "on_epoch_end"
    /\ (EpochEnded \/ last'.raised # "none")

\* This step wrote the model.
Persisted == "write_weights" \in last'.effects

path_checked(obj) == hasattr(obj, "_path_checked") /\ obj._path_checked

\* C12: an on_epoch_end call of a ModelCheckpoint with a model attached
\* persists the model whenever save_best_only is false; a persistence writes
\* weights.h5 and writes arch.yaml exactly when save_weights_only is false;
\* the directory is checked (and created) in a persisting call exactly when no
\* earlier call of the instance has checked it, the check is never forgotten,
\* and a call that checks the directory is the first one to write.
C12_Persistence ==
    [][/\ (IsMC /\ attached /\ EpochEndCalled) =>
            /\ ~self.save_best_only => (last'.raised = "none" /\ Persisted)
            /\ Persisted =>
                /\ files'.weights = Some(epoch)
                /\ files'.dir
                /\ "write_arch" \in last'.effects <=> ~self.save_weights_only
                /\ files'.arch = (IF self.save_weights_only
                                  THEN files.arch ELSE Some("yaml"))
                /\ "ensure_path_exists" \in last'.effects <=> ~path_checked(self)
                /\ "ensure_path_exists" \in last'.effects => IsNone(files.weights)
                /\ path_checked(self')
            /\ ~Persisted =>
                /\ last'.effects \cap (Writes \cup {"ensure_path_exists"}) = {}
                /\ files' = files
       /\ (IsMC /\ path_checked(self)) => path_checked(self')]_vars

\* Two persistences in a row of a weights-only checkpoint that saves every
\* epoch: the second one wrote the weights only and did not check the
\* directory again.
C12_Witness ==
    /\ IsMC /\ attached /\ ~self.save_best_only /\ self.save_weights_only
    /\ Len(log) >= 2 /\ log[Len(log) - 1].acted /\ log[Len(log)].acted
    /\ last.op = "on_epoch_end" /\ last.effects = {"write_weights"}
    /\ files.weights = Some(epoch - 1) /\ IsNone(files.arch)
    /\ path_checked(self)

-----------------------------------------------------------------------------
(* C13 - history None or without an entry in the monitored stream *)

\* This step is an on_epoch_end call with history None or with an empty
\* monitored stream.
HistoryEmpty ==
    /\ attached
    /\ last'.op = "on_epoch_end" /\ last'.arg \in {"None", "empty"}
    /\ (EpochEnded \/ last'.raised # "none")

\* C13 as stated: for EarlyStopping and for ModelCheckpoint with
\* save_best_only, a call with history None or with no entry in the monitored
\* stream raises nothing, signals and writes nothing and changes no state.
C13_EmptyHistorySkips ==
    [][(HistoryEmpty /\ (IsES \/ self.save_best_only)) => Skipped]_vars

-----------------------------------------------------------------------------
(* Vocabulary of the claims about the block indexing *)

Rank5 == Len(tin.x.shape) = 5
Padded == tpc # "pad"
QueryIndexed == Rank5 /\ tpc \in {"memory", "scatter", "raised", "done"}
FlangePadded == Rank5 /\ tpc \in {"query", "memory", "scatter", "raised", "done"}
MemoryIndexed == Rank5 /\ tpc \in {"scatter", "raised", "done"}

\* The padded query grid and the blocks it is cut into.
GridH == tout.q.shape[3]
GridW == tout.q.shape[4]
BlockH == tin.query_shape[1]
BlockW == tin.query_shape[2]
FlangeH == tin.memory_flange[1]
FlangeW == tin.memory_flange[2]
BlockRows == GridH \div BlockH
BlockCols == GridW \div BlockW

SmallestMultiple(n, b) == CHOOSE m \in n..(n + b - 1) : m % b = 0

\* Row n of an index map, as a sequence and as a set.
RowSeq(idx, n) == [p \in 1..idx.shape[2] |-> idx.data[n * idx.shape[2] + p - 1]]
RowSet(idx, n) == {idx.data[n * idx.shape[2] + p] : p \in 0..(idx.shape[2] - 1)}

\* The row-major offsets, in a grid of width w, of the h0 x w0 window whose
\* top left corner is (r0, c0), in row-major order.
Window(w, r0, c0, h0, w0) ==
    [p \in 1..(h0 * w0) |->
        (r0 + ((p - 1) \div w0)) * w + c0 + ((p - 1) % w0)]

-----------------------------------------------------------------------------
(* C7 - memory blocks of local_attention_2d *)

\* C7: k is the padded query grid with FlangeH rows of zeros above and below
\* and FlangeW columns of zeros left and right of it; the memory index map
\* has one block per query block, in the same order, and block i covers the
\* region of query block i extended by the flange on each side.
C7_MemoryBlocksMatchQueryBlocks ==
    /\ FlangePadded =>
        /\ tout.k.shape = <<tout.q.shape[1], tout.q.shape[2], GridH + 2 * FlangeH,
                            GridW + 2 * FlangeW, tout.q.shape[5]>>
        /\ \A l \in Offsets(tout.k.shape) :
            LET i == Unravel(l, tout.k.shape)
                inner == /\ i[3] >= FlangeH /\ i[3] < FlangeH + GridH
                         /\ i[4] >= FlangeW /\ i[4] < FlangeW + GridW
            IN tout.k.data[l] =
                IF inner
                THEN At(tout.q, <<i[1], i[2], i[3] - FlangeH, i[4] - FlangeW, i[5]>>)
                ELSE 0
    /\ MemoryIndexed =>
        /\ tpc # "raised"
        /\ tout.k_and_v_indices.shape[1] = tout.q_indices.shape[1]
        /\ \A n \in 0..(BlockRows * BlockCols - 1) :
            RowSeq(tout.k_and_v_indices, n) =
                Window(GridW + 2 * FlangeW,
                       (n \div BlockCols) * BlockH, (n % BlockCols) * BlockW,
                       BlockH + 2 * FlangeH, BlockW + 2 * FlangeW)

-----------------------------------------------------------------------------
(* C8 - index coverage of gather_indices_2d *)

\* C8: over a grid whose height and width are multiples of the block shape,
\* with the stride equal to the block shape, the index map has one row per
\* block, each row holds the block-area many different offsets of one
\* sub-grid of the block shape, and the rows together hold every offset of
\* the grid exactly once.
C8_IndexCoverage ==
    QueryIndexed =>
        LET idx == tout.q_indices
            nb == BlockRows * BlockCols
            area == BlockH * BlockW
        IN /\ idx.shape = <<nb, area>>
           /\ \A n \in 0..(nb - 1) :
                /\ Cardinality(RowSet(idx, n)) = area
                /\ \E r0 \in 0..(GridH - BlockH), c0 \in 0..(GridW - BlockW) :
                    RowSet(idx, n) =
                        {Window(GridW, r0, c0, BlockH, BlockW)[p] : p \in 1..area}
           /\ UNION {RowSet(idx, n) : n \in 0..(nb - 1)} = 0..(GridH * GridW - 1)
           /\ nb * area = GridH * GridW

\* A grid cut into several blocks in each direction, each of several cells.
C8_Witness ==
    /\ QueryIndexed
    /\ BlockRows >= 2 /\ BlockCols >= 2
    /\ BlockH * BlockW >= 2

-----------------------------------------------------------------------------
(* C9 - gather and scatter round trip *)

\* C9: scattering the gathered blocks of the padded map back through the
\* same index map gives the padded map, entry for entry.
C9_GatherScatterRoundTrip ==
    (Rank5 /\ tpc = "done") => tout.output = tout.q

\* A round trip over several blocks, batches and channels of a map that was
\* padded.
C9_Witness ==
    /\ Rank5 /\ tpc = "done"
    /\ tout.q_indices.shape[1] >= 4
    /\ tin.x.shape[1] >= 2 /\ tin.x.shape[5] >= 2
    /\ GridH > tin.x.shape[3]

-----------------------------------------------------------------------------
(* C10 - padding to a multiple of the block shape *)

\* C10: the padded map has the smallest multiples of the block height and
\* width that reach the height and width of the input, its other dimensions
\* are those of the input, the entries of the input are where they were and
\* the entries added after them are zero.
C10_PaddingMultiple ==
    Padded =>
        LET x == tin.x
            y == tout.q
            r == Len(x.shape)
        IN /\ Len(y.shape) = r
           /\ y.shape[r - 2] = SmallestMultiple(x.shape[r - 2], BlockH)
           /\ y.shape[r - 1] = SmallestMultiple(x.shape[r - 1], BlockW)
           /\ \A d \in 1..r \ {r - 2, r - 1} : y.shape[d] = x.shape[d]
           /\ \A l \in Offsets(y.shape) :
                LET i == Unravel(l, y.shape)
                IN y.data[l] = IF \A d \in 1..r : i[d] < x.shape[d]
                               THEN At(x, i) ELSE 0

\* A rank-4 map padded in height and in width.
C10_Witness ==
    /\ Padded
    /\ Len(tin.x.shape) = 4
    /\ tout.q.shape[2] > tin.x.shape[2]
    /\ tout.q.shape[3] > tin.x.shape[3]

-----------------------------------------------------------------------------
(* C11 - keyboard interrupt in parallel_generator *)

\* The interrupt has reached the caller.
Propagated == pg.pc \in {"raised", "abandoned"}

\* C11 as stated: when a keyboard interrupt that arrived after the first
\* submission of a batch has reached the caller, cancel was called on every
\* job that was outstanding when it arrived, the executor is shut down, and
\* no job was submitted after it arrived.
C11_InterruptCancelsOutstanding ==
    (/\ Propagated
     /\ pg.interrupt[1].outstanding # {})
    => /\ pg.interrupt[1].outstanding \subseteq pg.cancel_called
       /\ pg.executor = "shutdown"
       /\ Submitted(pg) = pg.interrupt[1].submitted

=============================================================================
